---- MODULE Spec2Model ----
(***************************************************************************)
(* AES-128 (AESencode.cpp): Galois-field arithmetic, S-box construction,   *)
(* key schedule, block encryption / decryption and the file loop of main.  *)
(*                                                                         *)
(* Conventions.  Bytes (u8) are integers 0..255.  C arrays are functions   *)
(* on 0..n-1, except the four-byte arrays (array<u8, 4>), which are        *)
(* 4-tuples (C index k is tuple index k+1).  C loops are recursive         *)
(* functions of the loop counter and the values the loop updates, so that  *)
(* every iteration works on evaluated values.                              *)
(***************************************************************************)
EXTENDS Integers, Sequences, FiniteSets, TLC

VARIABLES
    pc,             \* position of the running program
    sbox,           \* u8 sbox[256]
    inverse_sbox,   \* u8 inverse_sbox[256]
    inv_written,    \* indices of inverse_sbox that make_sbox_array assigned
    key_schedule,   \* array<u8, 176> key_schedule
    ks_written,     \* indices of key_schedule that make_key_schedule assigned
    user_key,       \* array<u8, 16> user_key
    mode,           \* "E" or "D" (main), "" before it is read
    file,           \* the input file: a sequence of characters (0..255)
    pos,            \* read position of input_file
    stream_ok,      \* bool(input_file)
    gcount,         \* input_file.gcount() of the last read
    buffer,         \* char buffer[32]
    current_block,  \* array<u8, 16> current_block
    result,         \* the block returned by the last block operation
    dec_ops,        \* the steps the last decrypt_block call performed
    output_file,    \* characters written to output_file
    cout,           \* items written to standard output
    calls,          \* the block operations called so far, in order
    sbox_builds,    \* number of completed make_sbox_array calls
    sched_builds,   \* number of completed make_key_schedule calls
    fa, fb, finv, fprod,  \* operands and results of the field-arithmetic runs
    facc            \* the accumulator of the last rijndael_multiply at its return

vars == <<pc, sbox, inverse_sbox, inv_written, key_schedule, ks_written,
          user_key, mode, file, pos, stream_ok, gcount, buffer, current_block,
          result, dec_ops, output_file, cout, calls, sbox_builds, sched_builds,
          fa, fb, finv, fprod, facc>>

----------------------------------------------------------------------------
(* Bounds of the model.                                                    *)

\* Keys are drawn from KeyOf(0) .. KeyOf(MaxKeySeed).
MaxKeySeed == 3
\* Blocks are drawn from BlockOf(0) .. BlockOf(MaxBlockSeed).
MaxBlockSeed == 11
\* Input files of main have 0 .. MaxFileLen characters.
MaxFileLen == 48
\* The key typed in main is drawn from KeyOf(0) .. KeyOf(MaxMainKeySeed).
MaxMainKeySeed == 0
\* The second operand of the field runs is drawn from FieldOperands.
FieldOperands == {0, 1, 2, 3, 27, 87, 131, 254, 255}

----------------------------------------------------------------------------
(* Bit operations on non-negative integers.                                *)

Pow2(n) == 2 ^ n

\* a ^ b of C
XOR[a \in Nat, b \in Nat] ==
    IF a = 0 THEN b
    ELSE IF b = 0 THEN a
    ELSE ((a + b) % 2) + 2 * XOR[a \div 2, b \div 2]

\* (v & (1 << i)) == (1 << i)
BitSet(v, i) == (v \div Pow2(i)) % 2 = 1

\* the bit pattern kept by an assignment to a short int / to a u8
ToShort(v) == v % 65536
ToU8(v) == v % 256

Byte == 0..255
Block16 == [0..15 -> Byte]

----------------------------------------------------------------------------
(* Galois-field arithmetic.                                                *)

reducing_num == 283    \* 0x11b

\* for (i = 0; i <= 7; i++) if (b has bit i) result ^= (a << i);
mul_loop[a \in Nat, b \in Nat, i \in Nat, res \in Nat] ==
    IF i > 7 THEN res
    ELSE mul_loop[a, b, i + 1,
                  IF BitSet(b, i) THEN ToShort(XOR[res, a * Pow2(i)]) ELSE res]

\* for (i = 15; i >= 8; i--) if (result has bit i) result ^= (reducing_num << (i - 8));
red_loop[i \in Int, res \in Nat] ==
    IF i < 8 THEN res
    ELSE red_loop[i - 1,
                  IF BitSet(res, i)
                  THEN ToShort(XOR[res, reducing_num * Pow2(i - 8)])
                  ELSE res]

\* the short int accumulator of rijndael_multiply at its return statement
rijndael_multiply_acc(a, b) == red_loop[15, mul_loop[a, b, 0, 0]]

rijndael_multiply(a, b) == ToU8(rijndael_multiply_acc(a, b))

\* Iterations lo..hi of "for (i = 1; i <= 254; i++) result = rijndael_multiply(result, x)",
\* in order: the range is halved so that the evaluation stays shallow.
inv_loop[x \in Nat, lo \in Nat, hi \in Nat, res \in Nat] ==
    IF lo > hi THEN res
    ELSE IF lo = hi THEN rijndael_multiply(res, x)
    ELSE inv_loop[x, ((lo + hi) \div 2) + 1, hi,
                  inv_loop[x, lo, (lo + hi) \div 2, res]]

\* mutant: one multiplication too few (i < 254)
rijndael_inverse_bad(x) == inv_loop[x, 1, 253, 1]
rijndael_inverse(x) == inv_loop[x, 1, 254, 1]

----------------------------------------------------------------------------
(* Rotations.                                                              *)

lcs_8bit(x, y) == ToU8(((x * Pow2(y)) % 256) + (x \div Pow2(8 - y)))

\* for (i = 1; i <= y; i++) x = { x[1], x[2], x[3], x[0] };
lcs_loop[x \in Seq(Byte), i \in Nat, y \in Nat] ==
    IF i > y THEN x
    ELSE lcs_loop[<<x[2], x[3], x[4], x[1]>>, i + 1, y]

lcs_4byte(x, y) == lcs_loop[x, 1, y]

----------------------------------------------------------------------------
(* S-box.                                                                  *)

sbox_affine[inv \in Nat] ==
    ToU8(XOR[XOR[XOR[XOR[XOR[inv, lcs_8bit(inv, 1)], lcs_8bit(inv, 2)],
                     lcs_8bit(inv, 3)], lcs_8bit(inv, 4)], 99])

sbox_value(input) == sbox_affine[rijndael_inverse(input)]

Tables == [sbox : [Byte -> Byte], inverse_sbox : [Byte -> Byte], written : SUBSET Byte]

\* one iteration of make_sbox_array: sbox[i] = s; inverse_sbox[s] = i;
sbox_store[t \in Tables, i \in Byte, s \in Byte] ==
    [sbox         |-> [t.sbox EXCEPT ![i] = s],
     inverse_sbox |-> [t.inverse_sbox EXCEPT ![s] = i],
     written      |-> t.written \cup {s}]

\* Iterations lo..hi of "for (i = 0; i <= 0xff; i++)", in order (range halved as in
\* inv_loop).
sbox_loop[lo \in Nat, hi \in Nat, t \in Tables] ==
    IF lo > hi THEN t
    ELSE IF lo = hi THEN sbox_store[t, lo, sbox_value(lo)]
    ELSE sbox_loop[((lo + hi) \div 2) + 1, hi, sbox_loop[lo, (lo + hi) \div 2, t]]

\* mutant: the loop stops one entry early (i < 0xff)
make_sbox_array_bad(t) == sbox_loop[0, 254, t]

\* make_sbox_array() run on the tables t
make_sbox_array(t) == sbox_loop[0, 255, t]

----------------------------------------------------------------------------
(* Key schedule.                                                           *)

\* round_constant(char i), i >= 1
rc_rec[i \in 1..127] ==
    IF i = 1 THEN 1
    ELSE LET previous_rc == rc_rec[i - 1]
         IN IF previous_rc < 128
            THEN ToU8(2 * previous_rc)
            ELSE ToU8(XOR[(2 * previous_rc) - 256, 27])

\* mutant: the reduction by 0x1b is left out
round_constant_bad(i) == IF i <= 8 THEN Pow2(i - 1) ELSE ToU8(Pow2(i - 1))

round_constant(i) == rc_rec[i]

Word4(a, off) == <<a[off], a[off + 1], a[off + 2], a[off + 3]>>

\* memcpy(&a[off], &w, 4) and the four-step loops "a[off + j] = w[j]"
Store4(a, off, w) ==
    [a EXCEPT ![off] = w[1], ![off + 1] = w[2], ![off + 2] = w[3], ![off + 3] = w[4]]

Xor4(u, v) == <<XOR[u[1], v[1]], XOR[u[2], v[2]], XOR[u[3], v[3]], XOR[u[4], v[4]]>>

\* the word make_key_schedule stores at key_schedule[4 * i .. 4 * i + 3]
ks_word(i, ks, key) ==
    IF i < 4 THEN Word4(key, i * 4)
    ELSE LET o1 == Word4(ks, (i - 1) * 4)
             o4 == Word4(ks, (i - 4) * 4)
         IN IF (i % 4) = 0
            THEN LET rot == lcs_4byte(o1, 1)
                     s == <<sbox[rot[1]], sbox[rot[2]], sbox[rot[3]], sbox[rot[4]]>>
                     rc_array == <<round_constant(i \div 4), 0, 0, 0>>
                 IN Xor4(Xor4(o4, s), rc_array)
            ELSE Xor4(o1, o4)

Schedule176 == [0..175 -> Byte]

\* for (char i = 0; i < 44; i++)
ks_loop[i \in Nat, ks \in Schedule176, wr \in SUBSET (0..175), key \in Block16] ==
    IF i >= 44 THEN [ks |-> ks, written |-> wr]
    ELSE ks_loop[i + 1, Store4(ks, 4 * i, ks_word(i, ks, key)),
                 wr \cup (4 * i .. 4 * i + 3), key]

\* make_key_schedule(key) run on the schedule ks
make_key_schedule(ks, key) == ks_loop[0, ks, {}, key]

----------------------------------------------------------------------------
(* Block encryption.                                                       *)

\* for (i = 0; i < 16; i++) block[i] ^= round_key[i];   round_key = key_schedule[off ..]
ark_loop[i \in Nat, block \in Block16, off \in Nat] ==
    IF i >= 16 THEN block
    ELSE ark_loop[i + 1, [block EXCEPT ![i] = XOR[@, key_schedule[off + i]]], off]

AddRoundKey(block, off) == ark_loop[0, block, off]

\* for (i = 0; i < 16; i++) block[i] = sbox[block[i]];
sub_loop[i \in Nat, block \in Block16] ==
    IF i >= 16 THEN block
    ELSE sub_loop[i + 1, [block EXCEPT ![i] = sbox[@]]]

SubBytes(block) == sub_loop[0, block]

\* block[i], block[i + 4], block[i + 8], block[i + 12] = newrow
StoreRow(block, i, newrow) ==
    [block EXCEPT ![i] = newrow[1], ![i + 4] = newrow[2],
                  ![i + 8] = newrow[3], ![i + 12] = newrow[4]]

Row(block, i) == <<block[i], block[i + 4], block[i + 8], block[i + 12]>>

\* for (i = 0; i < 4; i++) { newrow = lcs_4byte(row i, i); ... }
shift_loop[i \in Nat, block \in Block16] ==
    IF i >= 4 THEN block
    ELSE shift_loop[i + 1, StoreRow(block, i, lcs_4byte(Row(block, i), i))]

\* mutant: the rows are not shifted
ShiftRows_bad(block) == block

ShiftRows(block) == shift_loop[0, block]

Xor4of(a, b, c, d) == XOR[XOR[XOR[a, b], c], d]

\* the array mix of encrypt_block for column i
mix_column(block, i) ==
    LET c0 == block[4 * i]
        c1 == block[4 * i + 1]
        c2 == block[4 * i + 2]
        c3 == block[4 * i + 3]
    IN <<Xor4of(rijndael_multiply(2, c0), rijndael_multiply(3, c1), c2, c3),
         Xor4of(c0, rijndael_multiply(2, c1), rijndael_multiply(3, c2), c3),
         Xor4of(c0, c1, rijndael_multiply(2, c2), rijndael_multiply(3, c3)),
         Xor4of(rijndael_multiply(3, c0), c1, c2, rijndael_multiply(2, c3))>>

\* for (i = 0; i < 4; i++) { mix = ...; memcpy(&block[4 * i], &mix, 4); }
mix_loop[i \in Nat, block \in Block16] ==
    IF i >= 4 THEN block
    ELSE mix_loop[i + 1, Store4(block, 4 * i, mix_column(block, i))]

MixColumns(block) == mix_loop[0, block]

\* the body of "for (round = 1; round <= 10; round++)" in encrypt_block
encrypt_round(block, round) ==
    LET shifted == ShiftRows(SubBytes(block))
        mixed == IF round # 10 THEN MixColumns(shifted) ELSE shifted
    IN AddRoundKey(mixed, round * 16)

enc_loop[round \in Nat, block \in Block16] ==
    IF round > 10 THEN block
    ELSE enc_loop[round + 1, encrypt_round(block, round)]

\* the block encrypt_block(block) returns
encrypt_block(block) == enc_loop[1, AddRoundKey(block, 0)]

\* what encrypt_block writes to cout: the 16 bytes of the block in hex, then endl
HexDigits == <<"0", "1", "2", "3", "4", "5", "6", "7",
               "8", "9", "a", "b", "c", "d", "e", "f">>

\* cout << hex << int(v)
HexText(v) ==
    IF v < 16 THEN HexDigits[v + 1]
    ELSE HexDigits[(v \div 16) + 1] \o HexDigits[(v % 16) + 1]

encrypt_block_output(block) == [i \in 1..16 |-> HexText(block[i - 1])] \o <<"endl">>

----------------------------------------------------------------------------
(* Block decryption.  The state of a call is the block and the list of     *)
(* steps performed so far; a step is recorded with the value of the loop   *)
(* variable round (11 after the loop) and, for AddRoundKey, the offset of  *)
(* the round key in key_schedule (-1 otherwise).                           *)

OpRec == [round : 1..11, op : STRING, key_off : -1..175]
DecState == [block : Block16, ops : Seq(OpRec)]

Did(st, block, round, op, off) ==
    [block |-> block,
     ops   |-> Append(st.ops, [round |-> round, op |-> op, key_off |-> off])]

\* the array mix of decrypt_block for column i
inv_mix_column(block, i) ==
    LET c0 == block[4 * i]
        c1 == block[4 * i + 1]
        c2 == block[4 * i + 2]
        c3 == block[4 * i + 3]
    IN <<Xor4of(rijndael_multiply(14, c0), rijndael_multiply(11, c1),
                rijndael_multiply(13, c2), rijndael_multiply(9, c3)),
         Xor4of(rijndael_multiply(9, c0), rijndael_multiply(14, c1),
                rijndael_multiply(11, c2), rijndael_multiply(13, c3)),
         Xor4of(rijndael_multiply(13, c0), rijndael_multiply(9, c1),
                rijndael_multiply(14, c2), rijndael_multiply(11, c3)),
         Xor4of(rijndael_multiply(11, c0), rijndael_multiply(13, c1),
                rijndael_multiply(9, c2), rijndael_multiply(14, c3))>>

inv_mix_loop[i \in Nat, block \in Block16] ==
    IF i >= 4 THEN block
    ELSE inv_mix_loop[i + 1, Store4(block, 4 * i, inv_mix_column(block, i))]

InvMixColumns(block) == inv_mix_loop[0, block]

\* for (i = 0; i < 4; i++) { newrow = lcs_4byte(row i, 4 - i); ... }
inv_shift_loop[i \in Nat, block \in Block16] ==
    IF i >= 4 THEN block
    ELSE inv_shift_loop[i + 1, StoreRow(block, i, lcs_4byte(Row(block, i), 4 - i))]

\* mutant: the rows are shifted left by i, as in encrypt_block
InvShiftRows_bad(block) == shift_loop[0, block]

InvShiftRows(block) == inv_shift_loop[0, block]

\* for (i = 0; i < 16; i++) block[i] = inverse_sbox[block[i]];
inv_sub_loop[i \in Nat, block \in Block16] ==
    IF i >= 16 THEN block
    ELSE inv_sub_loop[i + 1, [block EXCEPT ![i] = inverse_sbox[@]]]

InvSubBytes(block) == inv_sub_loop[0, block]

\* mutant: the test of encrypt_block (round != 10)
dec_mixes_bad(round) == round # 10

\* whether round `round` of decrypt_block applies InverseMixColumns
dec_mixes(round) == round # 1

\* the body of "for (round = 1; round <= 10; round++)" in decrypt_block
decrypt_round(st, round) ==
    LET off == 160 - (16 * (round - 1))
        a == Did(st, AddRoundKey(st.block, off), round, "AddRoundKey", off)
        m == IF dec_mixes(round)
             THEN Did(a, InvMixColumns(a.block), round, "InvMixColumns", -1)
             ELSE a
        h == Did(m, InvShiftRows(m.block), round, "InvShiftRows", -1)
    IN Did(h, InvSubBytes(h.block), round, "InvSubBytes", -1)

dec_loop[round \in Nat, st \in DecState] ==
    IF round > 10 THEN st
    ELSE dec_loop[round + 1, decrypt_round(st, round)]

\* decrypt_block(block): the block it returns and the steps it performed
decrypt_block(block) ==
    LET st == dec_loop[1, [block |-> block, ops |-> <<>>]]
    IN Did(st, AddRoundKey(st.block, 0), 11, "AddRoundKey", 0)

----------------------------------------------------------------------------
(* Inputs.                                                                 *)

\* KeyOf(0) is the key 00 01 .. 0f of the FIPS-197 example
KeyOf(s) == [j \in 0..15 |-> (j + (s * 89 * (j + 1))) % 256]
\* BlockOf(0) is the plaintext 00 11 .. ff of the FIPS-197 example
BlockOf(t) == [j \in 0..15 |-> ((17 * j) + (t * 101 * (j + 3))) % 256]

ZeroBlock == [j \in 0..15 |-> 0]
ZeroTable == [j \in 0..255 |-> 0]
ZeroSchedule == [j \in 0..175 |-> 0]

----------------------------------------------------------------------------
(* The cipher operations applied to drawn keys and blocks.                 *)

CommonInit ==
    /\ sbox = ZeroTable
    /\ inverse_sbox = ZeroTable
    /\ inv_written = {}
    /\ key_schedule = ZeroSchedule
    /\ ks_written = {}
    /\ user_key = ZeroBlock
    /\ mode = ""
    /\ file = <<>>
    /\ pos = 0
    /\ stream_ok = FALSE
    /\ gcount = 0
    /\ current_block = ZeroBlock
    /\ result = ZeroBlock
    /\ dec_ops = <<>>
    /\ output_file = <<>>
    /\ cout = <<>>
    /\ calls = <<>>
    /\ sbox_builds = 0
    /\ sched_builds = 0
    /\ fa = 0 /\ fb = 0 /\ finv = 0 /\ fprod = 0 /\ facc = 0

mainVars == <<mode, file, pos, stream_ok, gcount, buffer, output_file>>
fieldVars == <<fa, fb, finv, fprod, facc>>
tableVars == <<sbox, inverse_sbox, inv_written, sbox_builds>>
schedVars == <<key_schedule, ks_written, sched_builds>>

\* make_sbox_array();
BuildTables ==
    LET t == make_sbox_array([sbox |-> sbox, inverse_sbox |-> inverse_sbox,
                              written |-> inv_written])
    IN /\ sbox' = t.sbox
       /\ inverse_sbox' = t.inverse_sbox
       /\ inv_written' = t.written
       /\ sbox_builds' = sbox_builds + 1

\* make_key_schedule(user_key);
BuildSchedule(key) ==
    LET k == make_key_schedule(key_schedule, key)
    IN /\ key_schedule' = k.ks
       /\ ks_written' = k.written
       /\ sched_builds' = sched_builds + 1

\* encrypt = encrypt_block(block);
DoEncrypt(block) ==
    /\ result' = encrypt_block(block)
    /\ cout' = cout \o encrypt_block_output(encrypt_block(block))
    /\ calls' = Append(calls, [op |-> "encrypt_block", arg |-> block, got |-> gcount])
    /\ UNCHANGED dec_ops

\* decrypt = decrypt_block(block);
DoDecrypt(block) ==
    LET d == decrypt_block(block)
    IN /\ result' = d.block
       /\ dec_ops' = d.ops
       /\ calls' = Append(calls, [op |-> "decrypt_block", arg |-> block, got |-> gcount])
       /\ UNCHANGED cout

CipherInit ==
    /\ CommonInit
    /\ pc = "tables"
    /\ buffer = [j \in 0..31 |-> 0]

CipherTables ==
    /\ pc = "tables"
    /\ BuildTables
    /\ pc' = "key"
    /\ UNCHANGED <<schedVars, user_key, current_block, result, dec_ops, cout, calls,
                   mainVars, fieldVars>>

CipherKey ==
    /\ pc = "key"
    /\ \E s \in 0..MaxKeySeed :
          /\ user_key' = KeyOf(s)
          /\ BuildSchedule(KeyOf(s))
    /\ pc' = "block"
    /\ UNCHANGED <<tableVars, current_block, result, dec_ops, cout, calls,
                   mainVars, fieldVars>>

CipherEncrypt ==
    /\ pc = "block"
    /\ \E t \in 0..MaxBlockSeed :
          /\ current_block' = BlockOf(t)
          /\ DoEncrypt(BlockOf(t))
    /\ pc' = "encrypted"
    /\ UNCHANGED <<tableVars, schedVars, user_key, mainVars, fieldVars>>

CipherDecrypt ==
    /\ pc = "encrypted"
    /\ DoDecrypt(result)
    /\ pc' = "decrypted"
    /\ UNCHANGED <<tableVars, schedVars, user_key, current_block, mainVars, fieldVars>>

CipherNext == CipherTables \/ CipherKey \/ CipherEncrypt \/ CipherDecrypt

SpecCipher == CipherInit /\ [][CipherNext]_vars

----------------------------------------------------------------------------
(* Field arithmetic applied to drawn operands.                             *)

FieldInit ==
    /\ CommonInit
    /\ pc = "operand"
    /\ buffer = [j \in 0..31 |-> 0]

\* an operand a is drawn; inv = rijndael_inverse(a)
FieldInverse ==
    /\ pc = "operand"
    /\ \E a \in Byte :
          /\ fa' = a
          /\ finv' = rijndael_inverse(a)
    /\ pc' = "inverted"
    /\ UNCHANGED <<fb, fprod, facc, tableVars, schedVars, user_key, current_block,
                   result, dec_ops, cout, calls, mainVars>>

\* prod = rijndael_multiply(a, inv)
FieldMultiplyInverse ==
    /\ pc = "inverted"
    /\ fb' = finv
    /\ facc' = rijndael_multiply_acc(fa, finv)
    /\ fprod' = rijndael_multiply(fa, finv)
    /\ pc' = "multiplied_inverse"
    /\ UNCHANGED <<fa, finv, tableVars, schedVars, user_key, current_block,
                   result, dec_ops, cout, calls, mainVars>>

\* a second operand b is drawn; prod = rijndael_multiply(a, b)
FieldMultiply ==
    /\ pc = "inverted"
    /\ \E b \in FieldOperands :
          /\ fb' = b
          /\ facc' = rijndael_multiply_acc(fa, b)
          /\ fprod' = rijndael_multiply(fa, b)
    /\ pc' = "multiplied"
    /\ UNCHANGED <<fa, finv, tableVars, schedVars, user_key, current_block,
                   result, dec_ops, cout, calls, mainVars>>

FieldNext == FieldInverse \/ FieldMultiplyInverse \/ FieldMultiply

SpecField == FieldInit /\ [][FieldNext]_vars

----------------------------------------------------------------------------
(* main.                                                                   *)

\* the value a char variable holds after a byte is stored in it (char is signed)
ToChar(b) == IF b >= 128 THEN b - 256 ELSE b

\* the characters '0'..'9', 'a'..'f' of a value 0..15 (cout/ofstream << hex)
HexChar(v) == IF v < 10 THEN 48 + v ELSE 87 + v

IsHexChar(c) == c \in (48..57) \cup (97..102) \cup (65..70)
HexVal(c) == IF c \in 48..57 THEN c - 48 ELSE IF c \in 97..102 THEN c - 87 ELSE c - 55
IsSpaceChar(c) == c \in (9..13) \cup {32}

\* stoi(string({c1, c2}), nullptr, 16): the value, or the std::invalid_argument it throws
stoi_hex2(c1, c2) ==
    IF IsHexChar(c1)
    THEN [throws |-> FALSE,
          val |-> IF IsHexChar(c2) THEN (16 * HexVal(c1)) + HexVal(c2) ELSE HexVal(c1)]
    ELSE IF (IsSpaceChar(c1) \/ c1 = 43) /\ IsHexChar(c2)
    THEN [throws |-> FALSE, val |-> HexVal(c2)]
    ELSE IF c1 = 45 /\ IsHexChar(c2)
    THEN [throws |-> FALSE, val |-> 0 - HexVal(c2)]
    ELSE [throws |-> TRUE, val |-> 0]

\* the 32 characters a user types for the key KeyOf(s)
KeyText(s) ==
    [j \in 0..31 |-> IF j % 2 = 0 THEN HexChar(KeyOf(s)[j \div 2] \div 16)
                     ELSE HexChar(KeyOf(s)[j \div 2] % 16)]

\* for (i = 0; i < 16; i++) user_key[i] = stoi(key_input.substr(2 * i, 2), nullptr, 16);
ParseKey(key_input) ==
    [i \in 0..15 |-> ToU8(stoi_hex2(key_input[2 * i], key_input[(2 * i) + 1]).val)]

\* Input files: any bytes in encrypt mode, the hex text an encryption wrote in decrypt mode
FileOf(m, n) ==
    [p \in 1..n |-> IF m = "E" THEN ((p * 53) + 150) % 256
                    ELSE HexChar(((p * 7) + 3) % 16)]

\* what the uninitialised char buffer[32] may hold: each character one of these
GarbageChars == {0, 55}

MainInit ==
    /\ CommonInit
    /\ pc = "start"
    /\ \E g \in GarbageChars : buffer = [j \in 0..31 |-> g]

Say(text) == cout' = Append(cout, text)

\* line 288
MainMakeSbox ==
    /\ pc = "start"
    /\ BuildTables
    /\ pc' = "ask_mode"
    /\ UNCHANGED <<schedVars, user_key, current_block, result, dec_ops, cout, calls,
                   mainVars, fieldVars>>

\* lines 294-299; a rejected answer repeats the prompt and changes nothing else
MainReadMode ==
    /\ pc = "ask_mode"
    /\ \E m \in {"E", "D"} : mode' = m
    /\ Say("Encrypt or decrypt? (E/D): ")
    /\ pc' = "ask_file"
    /\ UNCHANGED <<tableVars, schedVars, user_key, current_block, result, dec_ops,
                   calls, file, pos, stream_ok, gcount, buffer, output_file, fieldVars>>

\* lines 301-311
MainOpenFile ==
    /\ pc = "ask_file"
    /\ \E n \in 0..MaxFileLen : file' = FileOf(mode, n)
    /\ pos' = 0
    /\ stream_ok' = TRUE
    /\ Say("Enter a file name: ")
    /\ pc' = "ask_key"
    /\ UNCHANGED <<tableVars, schedVars, user_key, current_block, result, dec_ops,
                   calls, mode, gcount, buffer, output_file, fieldVars>>

\* lines 313-327
MainReadKey ==
    /\ pc = "ask_key"
    /\ \E s \in 0..MaxMainKeySeed : user_key' = ParseKey(KeyText(s))
    /\ cout' = cout \o <<"Enter a key - 32 hex characters: ",
                         IF mode = "E" THEN "Encrypting..." ELSE "Decrypting...">>
    /\ pc' = "make_schedule"
    /\ UNCHANGED <<tableVars, schedVars, current_block, result, dec_ops, calls,
                   mainVars, fieldVars>>

\* mutant: the call of make_key_schedule is missing
MainMakeSchedule_bad ==
    /\ pc = "make_schedule"
    /\ pc' = "loop"
    /\ UNCHANGED <<tableVars, schedVars, user_key, current_block, result, dec_ops, cout,
                   calls, mainVars, fieldVars>>

\* line 329
MainMakeSchedule ==
    /\ pc = "make_schedule"
    /\ BuildSchedule(user_key)
    /\ pc' = "loop"
    /\ UNCHANGED <<tableVars, user_key, current_block, result, dec_ops, cout, calls,
                   mainVars, fieldVars>>

chars_per_block == IF mode = "E" THEN 16 ELSE 32

\* mutant: a failed read leaves the rest of the buffer as it was
ReadInto_bad(buf, n, failed) ==
    [j \in 0..31 |-> IF j < n THEN ToChar(file[pos + j + 1]) ELSE buf[j]]

\* buffer after input_file.read(buffer, chars_per_block) stored n characters and, when
\* the read failed with n # 0, lines 349-352 zeroed buffer[n .. 15]
ReadInto(buf, n, failed) ==
    [j \in 0..31 |->
        IF j < n THEN ToChar(file[pos + j + 1])
        ELSE IF failed /\ n # 0 /\ j < 16 THEN 0
        ELSE buf[j]]

\* lines 335-354: the loop test, the read, and the handling of a failed read
MainRead ==
    /\ pc = "loop"
    /\ stream_ok
    /\ LET left == Len(file) - pos
           n == IF left < chars_per_block THEN left ELSE chars_per_block
           failed == n < chars_per_block
       IN /\ gcount' = n
          /\ pos' = pos + n
          /\ stream_ok' = ~failed
          /\ buffer' = ReadInto(buffer, n, failed)
          /\ pc' = IF failed /\ n = 0 THEN "close"
                   ELSE IF mode = "E" THEN "convert" ELSE "decode"
    /\ UNCHANGED <<tableVars, schedVars, user_key, current_block, result, dec_ops,
                   cout, calls, mode, file, output_file, fieldVars>>

\* line 335: while (input_file) is false after a failed read
MainLoopExit ==
    /\ pc = "loop"
    /\ ~stream_ok
    /\ pc' = "close"
    /\ UNCHANGED <<tableVars, schedVars, user_key, current_block, result, dec_ops,
                   cout, calls, mainVars, fieldVars>>

\* lines 357-360
MainConvert ==
    /\ pc = "convert"
    /\ current_block' = [i \in 0..15 |-> ToU8(buffer[i])]
    /\ pc' = "call_encrypt"
    /\ UNCHANGED <<tableVars, schedVars, user_key, result, dec_ops, cout, calls,
                   mainVars, fieldVars>>

\* line 362
MainCallEncrypt ==
    /\ pc = "call_encrypt"
    /\ DoEncrypt(current_block)
    /\ pc' = "write_encrypted"
    /\ UNCHANGED <<tableVars, schedVars, user_key, current_block, mainVars, fieldVars>>

\* output_file << setfill('0') << setw(2) << hex << int(b) for the 16 bytes of block
HexPairs(block) ==
    [k \in 1..32 |-> IF k % 2 = 1 THEN HexChar(block[(k - 1) \div 2] \div 16)
                     ELSE HexChar(block[(k - 1) \div 2] % 16)]

\* lines 363-366
MainWriteEncrypted ==
    /\ pc = "write_encrypted"
    /\ output_file' = output_file \o HexPairs(result)
    /\ pc' = "loop"
    /\ UNCHANGED <<tableVars, schedVars, user_key, current_block, result, dec_ops,
                   cout, calls, mode, file, pos, stream_ok, gcount, buffer, fieldVars>>

Decoded(i) == stoi_hex2(buffer[2 * i], buffer[(2 * i) + 1])

\* lines 370-373; an std::invalid_argument thrown by stoi is not caught: the program
\* is terminated
MainDecode ==
    /\ pc = "decode"
    /\ LET bad == {i \in 0..15 : Decoded(i).throws}
           stop == IF bad = {} THEN 16 ELSE CHOOSE i \in bad : \A k \in bad : i <= k
       IN /\ current_block' = [i \in 0..15 |-> IF i < stop THEN ToU8(Decoded(i).val)
                                               ELSE current_block[i]]
          /\ pc' = IF stop = 16 THEN "call_decrypt" ELSE "terminated"
    /\ UNCHANGED <<tableVars, schedVars, user_key, result, dec_ops, cout, calls,
                   mainVars, fieldVars>>

\* line 374
MainCallDecrypt ==
    /\ pc = "call_decrypt"
    /\ DoDecrypt(current_block)
    /\ pc' = "write_decrypted"
    /\ UNCHANGED <<tableVars, schedVars, user_key, current_block, mainVars, fieldVars>>

\* lines 375-378
MainWriteDecrypted ==
    /\ pc = "write_decrypted"
    /\ output_file' = output_file \o [k \in 1..16 |-> result[k - 1]]
    /\ pc' = "loop"
    /\ UNCHANGED <<tableVars, schedVars, user_key, current_block, result, dec_ops,
                   cout, calls, mode, file, pos, stream_ok, gcount, buffer, fieldVars>>

\* lines 381-385
MainClose ==
    /\ pc = "close"
    /\ Say("Completed!")
    /\ pc' = "done"
    /\ UNCHANGED <<tableVars, schedVars, user_key, current_block, result, dec_ops,
                   calls, mainVars, fieldVars>>

Next ==
    \/ MainMakeSbox
    \/ MainReadMode
    \/ MainOpenFile
    \/ MainReadKey
    \/ MainMakeSchedule
    \/ MainRead
    \/ MainLoopExit
    \/ MainConvert
    \/ MainCallEncrypt
    \/ MainWriteEncrypted
    \/ MainDecode
    \/ MainCallDecrypt
    \/ MainWriteDecrypted
    \/ MainClose

Spec == MainInit /\ [][Next]_vars

----------------------------------------------------------------------------

(* Claims.                                                                 *)

Bijective(f) == Cardinality({f[x] : x \in Byte}) = 256

\* C1 (SpecCipher): with the tables and the schedule of a key built, decrypt_block
\* applied to the block encrypt_block returned for a block b returns b.
T_C1_RoundTrip ==
    pc = "decrypted" =>
        /\ calls[1].op = "encrypt_block"
        /\ calls[2].op = "decrypt_block"
        /\ result = calls[1].arg

W_C1_RoundTrip ==
    /\ pc = "decrypted"
    /\ user_key = KeyOf(1)
    /\ calls[1].arg = BlockOf(2)
    /\ calls[2].arg # calls[1].arg
    /\ result = BlockOf(2)

\* the FIPS-197 appendix C.1 example
KatKey == [j \in 0..15 |-> <<0, 1, 2, 3, 4, 5, 6, 7, 8, 9, 10, 11, 12, 13, 14, 15>>[j + 1]]
KatPlain ==
    [j \in 0..15 |-> <<0, 17, 34, 51, 68, 85, 102, 119,
                       136, 153, 170, 187, 204, 221, 238, 255>>[j + 1]]
KatCipher ==
    [j \in 0..15 |-> <<105, 196, 224, 216, 106, 123, 4, 48,
                       216, 205, 183, 128, 112, 180, 197, 90>>[j + 1]]

\* C2 (SpecCipher): with the schedule of key 000102..0f, encrypt_block of
\* 00112233..ff returns 69c4e0d8 6a7b0430 d8cdb780 70b4c55a, and decrypt_block of
\* that ciphertext returns the plaintext.
T_C2_KnownAnswer ==
    /\ (pc = "encrypted" /\ user_key = KatKey /\ current_block = KatPlain)
          => result = KatCipher
    /\ (pc = "decrypted" /\ user_key = KatKey /\ calls[2].arg = KatCipher)
          => result = KatPlain

W_C2_KnownAnswer ==
    /\ pc = "decrypted"
    /\ user_key = KatKey
    /\ calls[1].arg = KatPlain
    /\ calls[2].arg = KatCipher

\* C3 (SpecCipher): once make_sbox_array has run, sbox is a bijection on 0..255,
\* inverse_sbox[sbox[x]] = x for every x, and every entry of inverse_sbox was written.
T_C3_SboxInverse ==
    sbox_builds >= 1 =>
        /\ Bijective(sbox)
        /\ \A x \in Byte : inverse_sbox[sbox[x]] = x
        /\ inv_written = Byte

W_C3_SboxInverse ==
    /\ sbox_builds = 1
    /\ sbox[0] = 99
    /\ sbox[1] = 124
    /\ inverse_sbox[99] = 0

\* C4 (SpecField): a * rijndael_inverse(a) = 1 for every a in 1..255,
\* rijndael_inverse(0) = 0, and the accumulator of rijndael_multiply is in 0..255
\* when it is returned.
T_C4_FieldInverse ==
    /\ pc # "operand" => (fa = 0 => finv = 0)
    /\ pc = "multiplied_inverse" => (fa # 0 => fprod = 1)
    /\ pc \in {"multiplied_inverse", "multiplied"} => (facc \in Byte /\ fprod = facc)

W_C4_FieldInverse ==
    /\ pc = "multiplied_inverse"
    /\ fa = 83
    /\ finv = 202
    /\ fprod = 1

\* word i of the key schedule
W(i) == Word4(key_schedule, 4 * i)
RotWordLeft1(w) == <<w[2], w[3], w[4], w[1]>>
SubWord(w) == <<sbox[w[1]], sbox[w[2]], sbox[w[3]], sbox[w[4]]>>
RoundConstant(r) == <<1, 2, 4, 8, 16, 32, 64, 128, 27, 54>>[r]

\* C5 (SpecCipher): make_key_schedule(key) writes all 176 bytes; W[0..3] is the key;
\* W[i] = W[i-4] XOR W[i-1] when i mod 4 # 0, and
\* W[i] = W[i-4] XOR SubWord(RotWordLeft1(W[i-1])) XOR (RoundConstant(i/4),0,0,0)
\* when i mod 4 = 0, with RoundConstant(1..10) = 01,02,04,08,10,20,40,80,1b,36.
T_C5_KeySchedule ==
    sched_builds >= 1 =>
        /\ ks_written = 0..175
        /\ \A i \in 0..3 : W(i) = Word4(user_key, 4 * i)
        /\ \A i \in 4..43 :
              W(i) = IF i % 4 # 0
                     THEN Xor4(W(i - 4), W(i - 1))
                     ELSE Xor4(Xor4(W(i - 4), SubWord(RotWordLeft1(W(i - 1)))),
                               <<RoundConstant(i \div 4), 0, 0, 0>>)

W_C5_KeySchedule ==
    /\ sched_builds = 1
    /\ user_key = KatKey
    /\ W(40) = <<19, 17, 29, 127>>
    /\ W(43) = <<77, 43, 48, 197>>

\* C6 (Spec): a call of encrypt_block or decrypt_block writes nothing to standard
\* output or to a file and leaves sbox, inverse_sbox, key_schedule and the caller's
\* block as they were.
C6_Pure ==
    [][calls' # calls =>
          /\ cout' = cout
          /\ output_file' = output_file
          /\ sbox' = sbox
          /\ inverse_sbox' = inverse_sbox
          /\ key_schedule' = key_schedule
          /\ current_block' = current_block]_vars

\* C7 (Spec): in decrypt mode decrypt_block is only called on a block decoded from
\* exactly 32 characters obtained by the current read; a shorter trailing chunk is
\* never padded, completed from the buffer or transformed.
C7_FullBlocksOnly ==
    /\ (mode = "D" /\ pc \in {"call_decrypt", "write_decrypted"}) => gcount = 32
    /\ \A k \in 1..Len(calls) : calls[k].op = "decrypt_block" => calls[k].got = 32

\* the names of the steps decrypt_block performed with loop variable r
StepsOf(r) ==
    LET mine == SelectSeq(dec_ops, LAMBDA o : o.round = r)
    IN [k \in 1..Len(mine) |-> mine[k].op]

\* the steps of a round of decrypt_block, InverseMixColumns left out in round skipped
RoundSteps(r, skipped) ==
    IF r = skipped
    THEN <<"AddRoundKey", "InvShiftRows", "InvSubBytes">>
    ELSE <<"AddRoundKey", "InvMixColumns", "InvShiftRows", "InvSubBytes">>

DecryptShape(skipped) ==
    /\ \A r \in 1..10 : StepsOf(r) = RoundSteps(r, skipped)
    /\ StepsOf(11) = <<"AddRoundKey">>
    /\ dec_ops[Len(dec_ops)].key_off = 0
    /\ \A k \in 1..(Len(dec_ops) - 1) : dec_ops[k].round <= dec_ops[k + 1].round

\* C8 as stated (SpecCipher): InverseMixColumns in every round except round 10.
C8_SkipsLastRound == pc = "decrypted" => DecryptShape(10)

\* C8 amended (SpecCipher): decrypt_block runs rounds 1..10, each starting with
\* AddRoundKey, and applies InverseMixColumns in every round except the first one
\* (round 1), followed by InverseShiftRows and InverseSubBytes, finishing with
\* AddRoundKey using round key 0.
T_C8_SkipsFirstRound == pc = "decrypted" => DecryptShape(1)

W_C8_SkipsFirstRound ==
    /\ pc = "decrypted"
    /\ Len(dec_ops) = 40
    /\ dec_ops[1] = [round |-> 1, op |-> "AddRoundKey", key_off |-> 160]
    /\ dec_ops[2].op = "InvShiftRows"
    /\ dec_ops[5].op = "InvMixColumns"

\* C9 (Spec): make_sbox_array completes exactly once, before make_key_schedule;
\* make_key_schedule completes exactly once, before the first block operation; no
\* block operation runs with unbuilt tables or schedule; once a block operation has
\* run, tables and schedule stay as they are.
T_C9_InitOrder ==
    /\ [](/\ sbox_builds <= 1
          /\ sched_builds <= 1
          /\ pc \notin {"start"} => sbox_builds = 1
          /\ pc \notin {"start", "ask_mode", "ask_file", "ask_key", "make_schedule"}
                => sched_builds = 1
          /\ sched_builds = 1 => sbox_builds = 1
          /\ calls # <<>> => /\ sbox_builds = 1
                             /\ sched_builds = 1
                             /\ inv_written = Byte
                             /\ ks_written = 0..175)
    /\ [][(calls # <<>> \/ calls' # calls)
             => UNCHANGED <<sbox, inverse_sbox, key_schedule, sbox_builds, sched_builds>>]_vars

W_C9_InitOrder ==
    /\ pc = "done"
    /\ Len(calls) = 3
    /\ sbox_builds = 1
    /\ sched_builds = 1

\* the 16-byte chunk j (1, 2, ..) of the input file, zero bytes after its end
Chunk(j) ==
    [i \in 0..15 |-> IF (16 * (j - 1)) + i < Len(file)
                     THEN file[(16 * (j - 1)) + i + 1] ELSE 0]

CeilDiv16(n) == (n + 15) \div 16

\* C10 (Spec): in encrypt mode, for a file of n bytes, the loop ends after exactly
\* ceil(n/16) calls of encrypt_block, on the consecutive 16-byte chunks of the file,
\* the last one filled with zero bytes; no block is encrypted for an empty read.
T_C10_EncryptChunks ==
    mode = "E" =>
        /\ pc # "terminated"
        /\ Len(calls) <= CeilDiv16(Len(file))
        /\ \A j \in 1..Len(calls) :
              calls[j].op = "encrypt_block" /\ calls[j].arg = Chunk(j)
        /\ pc \in {"close", "done"} => Len(calls) = CeilDiv16(Len(file))

W_C10_EncryptChunks ==
    /\ mode = "E"
    /\ pc = "done"
    /\ Len(file) = 35
    /\ Len(calls) = 3
    /\ calls[3].arg[2] = file[35]
    /\ calls[3].arg[3] = 0
    /\ Len(output_file) = 96
====
